---- MODULE Spec2Model ----
(***************************************************************************)
(* The package registry of tools/genception/driver/packageregistry.go:    *)
(* nodes (FlatPackage) keyed by PkgPath, the stdlib index, Add / Update / *)
(* ResolveImports and the reachability queries Query / Match built on     *)
(* walk.  Go strings are TLA+ strings (\o, Len and SubSeq act on them).   *)
(***************************************************************************)
EXTENDS Integers, Sequences, FiniteSets, TLC

VARIABLES
    packages,   \* pr.packages: map key -> node, as a set of <<key, node>>
    stdlib,     \* pr.stdlib: map PkgPath -> ID, as a set of <<path, id>>
    fault,      \* "none", or the runtime failure that ended the process
    op,         \* the operation that produced this state
    arg,        \* its node arguments (Add, Update), as a sequence
    query,      \* its string arguments (Query, Match), as a sequence
    retRoots,   \* Query: the returned roots, in order; Match: the returned
                \* roots as <<root, multiplicity>> (their order is that of a
                \* range over a map, which is unspecified)
    retPkgs,    \* Query/Match: returned nodes, as <<registry key, multiplicity>>
    entered,    \* Query/Match: <<registry key, times walk entered the node>>
    err,        \* ResolveImports: the returned error ("nil" when none)
    ranged      \* ResolveImports: the <<key, pkg>> its range over pr.packages
                \* produced, in order, up to the return

vars == <<packages, stdlib, fault, op, arg, query, retRoots, retPkgs, entered,
          err, ranged>>

(***************************************************************************)
(* Bounds of the model.                                                    *)
(***************************************************************************)
\* longest GoFiles list an input node carries
MaxFiles == 2
\* most entries in the Imports map of an input node
MaxImports == 1
\* longest argument list of Query and Match
MaxRoots == 2
\* nested walk calls the goroutine stack holds before the runtime aborts
MaxDepth == 8
\* most nodes handed to NewPackageRegistry
MaxPkgs == 2

(***************************************************************************)
(* Strings.                                                                *)
(***************************************************************************)
stdlibPrefix == "@@io_bazel_rules_go//stdlib:"

\* the reserved standard-library root label recognised by Match
RulesGoStdlibLabel == "@io_bazel_rules_go//:stdlib"

\* the external-test companion suffix
XTestSuffix == "_xtest"

\* strings.HasPrefix
HasPrefix(s, prefix) ==
    /\ Len(s) >= Len(prefix)
    /\ SubSeq(s, 1, Len(prefix)) = prefix

\* s[n:]
DropPrefix(s, n) == SubSeq(s, n + 1, Len(s))

(***************************************************************************)
(* Go maps: a map is the set of its <<key, value>> entries, one per key.   *)
(***************************************************************************)
EmptyMap == {}

Keys(m) == {e[1] : e \in m}

\* m[k], for a key of m
Get(m, k) == (CHOOSE e \in m : e[1] = k)[2]

\* m after m[k] = v
Put(m, k, v) == {e \in m : e[1] # k} \cup {<<k, v>>}

(***************************************************************************)
(* FlatPackage: the fields the registry reads and writes.  XTestFiles and  *)
(* Broken stand for what the delegated per-node steps depend on: the files *)
(* of the black-box test variant still to be split off, and whether the    *)
(* node's import-resolution step fails.                                    *)
(***************************************************************************)
FlatPackage(id, path, files, imports, standard, xtest, broken) ==
    [ID |-> id, PkgPath |-> path, GoFiles |-> files, Imports |-> imports,
     Standard |-> standard, XTestFiles |-> xtest, Broken |-> broken]

IsStdlib(pkg) == pkg.Standard

(***************************************************************************)
(* canonicalizeId, rewritePackage                                          *)
(***************************************************************************)
\* canonicalizeId that always answers the import path
canonicalizeIdToPath(path, id, pkg) == path

canonicalizeId(path, id, pkg) ==
    IF HasPrefix(id, stdlibPrefix) THEN DropPrefix(id, Len(stdlibPrefix))
    ELSE IF IsStdlib(pkg) THEN id
    ELSE path

rewritePackage(pkg) ==
    [pkg EXCEPT !.ID = pkg.PkgPath,
                !.Imports = {<<e[1], canonicalizeId(e[1], e[2], pkg)>> :
                                e \in pkg.Imports}]

(***************************************************************************)
(* isSuperset: "true", "false", or "panic" when b[bi] is read out of range *)
(***************************************************************************)
RECURSIVE isSupersetLoop(_, _, _, _)
isSupersetLoop(a, b, i, bi) ==
    IF i > Len(a) THEN "false"
    ELSE IF bi + 1 > Len(b) THEN "panic"
    ELSE IF a[i] = b[bi + 1]
         THEN IF bi + 1 = Len(b) THEN "true"
              ELSE isSupersetLoop(a, b, i + 1, bi + 1)
         ELSE isSupersetLoop(a, b, i + 1, bi)

\* isSuperset that compares the lengths only
isSupersetByLength(a, b) ==
    IF Len(a) < Len(b) THEN "false" ELSE "true"

isSuperset(a, b) ==
    IF Len(a) < Len(b) THEN "false" ELSE isSupersetLoop(a, b, 1, 0)

(***************************************************************************)
(* Update: the new value of pr.packages, or the panic isSuperset raises.   *)
(***************************************************************************)
\* Update that takes over the whole incoming node when it merges
UpdatePackagesWholeNode(P, pkg) ==
    IF pkg.PkgPath \notin Keys(P)
    THEN Put(P, pkg.PkgPath, pkg)
    ELSE IF isSuperset(pkg.GoFiles, Get(P, pkg.PkgPath).GoFiles) = "true"
         THEN Put(P, pkg.PkgPath, pkg)
         ELSE P

UpdatePackages(P, pkg) ==
    IF pkg.PkgPath \notin Keys(P)
    THEN Put(P, pkg.PkgPath, pkg)
    ELSE LET existing == Get(P, pkg.PkgPath) IN
         IF isSuperset(pkg.GoFiles, existing.GoFiles) = "true"
         THEN Put(P, pkg.PkgPath, [existing EXCEPT !.GoFiles = pkg.GoFiles])
         ELSE P

UpdateFault(P, pkg) ==
    IF /\ pkg.PkgPath \in Keys(P)
       /\ isSuperset(pkg.GoFiles, Get(P, pkg.PkgPath).GoFiles) = "panic"
    THEN "index out of range"
    ELSE "none"

(***************************************************************************)
(* Add: one iteration of the loop, and the loop over pkgs.                 *)
(***************************************************************************)
\* an Add iteration that keeps the node a logical path already has
AddOneKeepFirst(R, pkg) ==
    LET rw == rewritePackage(pkg) IN
    [packages |-> IF rw.PkgPath \in Keys(R.packages) THEN R.packages
                  ELSE Put(R.packages, rw.PkgPath, rw),
     stdlib   |-> IF IsStdlib(rw) THEN Put(R.stdlib, rw.PkgPath, rw.ID)
                  ELSE R.stdlib]

AddOne(R, pkg) ==
    LET rw == rewritePackage(pkg) IN
    [packages |-> Put(R.packages, rw.PkgPath, rw),
     stdlib   |-> IF IsStdlib(rw) THEN Put(R.stdlib, rw.PkgPath, rw.ID)
                  ELSE R.stdlib]

RECURSIVE AddAll(_, _)
AddAll(R, pkgs) ==
    IF pkgs = <<>> THEN R ELSE AddAll(AddOne(R, Head(pkgs)), Tail(pkgs))

(***************************************************************************)
(* ResolvePaths.  The per-node steps pkg.ResolvePaths(prf) and             *)
(* pkg.FilterFilesForBuildTags() are delegated.  The resolver prf is given *)
(* by the filesystem root it joins build-relative paths onto ("" leaves    *)
(* every path as it is), the active build configuration by the set of      *)
(* files inapplicable to it.                                               *)
(***************************************************************************)
\* prf(f)
ResolvePath(root, f) ==
    IF HasPrefix(f, "/") THEN f ELSE root \o f

ResolveFiles(root, files) ==
    [i \in DOMAIN files |-> ResolvePath(root, files[i])]

\* pkg.ResolvePaths(prf): every file path of the node goes through prf
PkgResolvePaths(pkg, root) ==
    [pkg EXCEPT !.GoFiles = ResolveFiles(root, pkg.GoFiles),
                !.XTestFiles = ResolveFiles(root, pkg.XTestFiles)]

\* pkg.FilterFilesForBuildTags(): the inapplicable files are removed
FilterFilesForBuildTags(pkg, excluded) ==
    LET Applies(f) == f \notin excluded IN
    [pkg EXCEPT !.GoFiles = SelectSeq(pkg.GoFiles, Applies),
                !.XTestFiles = SelectSeq(pkg.XTestFiles, Applies)]

\* the range loop: both steps on every stored node
ResolvePathsAll(P, root, excluded) ==
    {<<e[1], FilterFilesForBuildTags(PkgResolvePaths(e[2], root), excluded)>> :
        e \in P}

(***************************************************************************)
(* ResolveImports.  resolve is the closure handed to every node; the       *)
(* per-node steps pkg.ResolveImports and pkg.MoveTestFiles are delegated.  *)
(***************************************************************************)
\* resolve that hands back the import path when the index has no entry
resolveToPath(S, importPath) ==
    IF importPath \in Keys(S) THEN Get(S, importPath) ELSE importPath

resolve(S, importPath) ==
    IF importPath \in Keys(S) THEN Get(S, importPath) ELSE ""

\* pkg.ResolveImports(resolve): does it fail for this node
PkgResolveFails(pkg) == pkg.Broken

\* pkg.ResolveImports(resolve): every unresolved (empty-target) edge is
\* looked up; found, it gets the indexed identity, else it stays unresolved
PkgResolveImports(pkg, S) ==
    [pkg EXCEPT !.Imports = {
        IF e[2] = "" /\ resolve(S, e[1]) # ""
        THEN <<e[1], resolve(S, e[1])>> ELSE e : e \in pkg.Imports}]

\* pkg.MoveTestFiles(): the node left behind, and the synthesized test
\* node as a sequence of length 0 (nil) or 1
MoveTestFiles(pkg) ==
    IF pkg.XTestFiles = <<>>
    THEN [rest |-> pkg, test |-> <<>>]
    ELSE [rest |-> [pkg EXCEPT !.XTestFiles = <<>>],
          test |-> << FlatPackage(pkg.ID \o XTestSuffix,
                                  pkg.PkgPath \o XTestSuffix,
                                  pkg.XTestFiles, pkg.Imports,
                                  FALSE, <<>>, FALSE) >>]

\* the range loop that carries on past a node whose step fails and returns
\* the error once the range is over
RECURSIVE ResolveLoopPastFailure(_, _, _)
ResolveLoopPastFailure(P, S, pending) ==
    IF pending = {} THEN {[packages |-> P, err |-> "nil", ranged |-> <<>>]}
    ELSE UNION {
        LET pkg == Get(P, k) IN
        IF PkgResolveFails(pkg)
        THEN {[o EXCEPT !.err = "resolve imports failed",
                        !.ranged = <<<<k, pkg>>>> \o @]
              : o \in ResolveLoopPastFailure(P, S, pending \ {k})}
        ELSE LET mv == MoveTestFiles(PkgResolveImports(pkg, S))
                 P1 == Put(P, k, mv.rest)
                 P2 == IF mv.test = <<>> THEN P1
                       ELSE Put(P1, mv.test[1].ID, mv.test[1])
             IN  {[o EXCEPT !.ranged = <<<<k, pkg>>>> \o @]
                  : o \in ResolveLoopPastFailure(P2, S, pending \ {k})}
        : k \in pending }

\* The range loop over pr.packages: `pending` are the keys still to be
\* produced.  Each key present at the start is produced once, with the value
\* it has then; a key created during the loop may be produced or skipped.
\* The result is the set of outcomes over all iteration orders, each with
\* the <<key, pkg>> the range produced, in order.
RECURSIVE ResolveLoop(_, _, _)
ResolveLoop(P, S, pending) ==
    IF pending = {} THEN {[packages |-> P, err |-> "nil", ranged |-> <<>>]}
    ELSE UNION {
        LET pkg == Get(P, k) IN
        IF PkgResolveFails(pkg)
        THEN {[packages |-> P, err |-> "resolve imports failed",
               ranged |-> <<<<k, pkg>>>>]}
        ELSE LET mv   == MoveTestFiles(PkgResolveImports(pkg, S))
                 P1   == Put(P, k, mv.rest)
                 rest == pending \ {k}
                 tail == IF mv.test = <<>>
                         THEN ResolveLoop(P1, S, rest)
                         ELSE LET t  == mv.test[1]
                                  P2 == Put(P1, t.ID, t)
                              IN  IF t.ID \in Keys(P1)
                                  THEN ResolveLoop(P2, S, rest)
                                  ELSE ResolveLoop(P2, S, rest)
                                         \cup ResolveLoop(P2, S, rest \cup {t.ID})
             IN  {[o EXCEPT !.ranged = <<<<k, pkg>>>> \o @] : o \in tail}
        : k \in pending }

ResolveImportsOutcomes(P, S) == ResolveLoop(P, S, Keys(P))

(***************************************************************************)
(* walk.  A walk state is the accumulator acc (ID -> the node stored, named *)
(* by its registry key), the keys entered so far, and the runtime fault.    *)
(* The range over pkg.Imports has no fixed order: the result is the set of  *)
(* walk states over all orders.                                             *)
(***************************************************************************)
WalkStart == [acc |-> EmptyMap, trace |-> <<>>, fault |-> "none"]

RECURSIVE walk(_, _, _, _)
RECURSIVE walkImports(_, _, _, _)

\* walk that treats a root missing from the registry as fatal
walkAbortOnMissing(P, st, root, depth) ==
    IF st.fault # "none" THEN {st}
    ELSE IF depth > MaxDepth THEN {[st EXCEPT !.fault = "stack overflow"]}
    ELSE IF root \notin Keys(P)
         THEN {[st EXCEPT !.fault = "package ID not found"]}
    ELSE LET pkg == Get(P, root)
             st1 == [st EXCEPT !.acc = Put(st.acc, pkg.ID, root),
                               !.trace = Append(st.trace, root)]
         IN  walkImports(P, {st1}, pkg.Imports, depth)

walk(P, st, root, depth) ==
    IF st.fault # "none" THEN {st}
    ELSE IF depth > MaxDepth THEN {[st EXCEPT !.fault = "stack overflow"]}
    ELSE IF root \notin Keys(P) THEN {st}
    ELSE LET pkg == Get(P, root)
             st1 == [st EXCEPT !.acc = Put(st.acc, pkg.ID, root),
                               !.trace = Append(st.trace, root)]
         IN  walkImports(P, {st1}, pkg.Imports, depth)

\* `remaining` are the entries of pkg.Imports the range has yet to produce
walkImports(P, sts, remaining, depth) ==
    IF remaining = {} THEN sts
    ELSE UNION {
        walkImports(P,
            UNION { IF s.fault = "none" /\ e[2] \notin Keys(s.acc)
                    THEN walk(P, s, e[2], depth + 1)
                    ELSE {s} : s \in sts },
            remaining \ {e}, depth)
        : e \in remaining }

\* walk run once per root, in the order of the sequence, into one accumulator
RECURSIVE walkRoots(_, _, _)
walkRoots(P, sts, roots) ==
    IF roots = <<>> THEN sts
    ELSE walkRoots(P, UNION { walk(P, s, Head(roots), 1) : s \in sts },
                   Tail(roots))

\* retPkgs: the values of the accumulator, each node with its multiplicity
Collect(acc) ==
    {<<k, Cardinality({e \in acc : e[2] = k})>> : k \in {e[2] : e \in acc}}

\* the elements of a slice, each with its multiplicity
Tally(seq) ==
    {<<x, Cardinality({i \in DOMAIN seq : seq[i] = x})>> :
        x \in {seq[i] : i \in DOMAIN seq}}

\* what a Query or Match that walked to the state s hands back; nothing is
\* returned when the walk died
Result(roots, s) ==
    [roots   |-> IF s.fault = "none" THEN roots ELSE <<>>,
     pkgs    |-> IF s.fault = "none" THEN Collect(s.acc) ELSE {},
     entered |-> Tally(s.trace),
     fault   |-> s.fault]

(***************************************************************************)
(* Query, Match                                                            *)
(***************************************************************************)
QueryOutcomes(P, queries) ==
    {Result(queries, s) : s \in walkRoots(P, {WalkStart}, queries)}

\* Match: label normalisation
NormalizeLabel(label) ==
    IF HasPrefix(label, "@") THEN label ELSE "@" \o label

\* Match: the roots one label contributes
LabelRoots(P, label) ==
    LET l == NormalizeLabel(label) IN
    IF l = RulesGoStdlibLabel
    THEN {e[2].ID : e \in {x \in P : x[2].Standard}}
    ELSE {l} \cup (IF (l \o XTestSuffix) \in Keys(P)
                   THEN {l \o XTestSuffix} ELSE {})

MatchRoots(P, labels) ==
    UNION {LabelRoots(P, labels[i]) : i \in DOMAIN labels}

\* every order in which a range over the set can produce its elements
RECURSIVE Orders(_)
Orders(S) ==
    IF S = {} THEN {<<>>}
    ELSE UNION {{<<x>> \o o : o \in Orders(S \ {x})} : x \in S}

MatchOutcomes(P, labels) ==
    UNION {{Result(Tally(o), s) : s \in walkRoots(P, {WalkStart}, o)}
           : o \in Orders(MatchRoots(P, labels))}

(***************************************************************************)
(* The operations as actions.  A runtime fault (an unrecovered panic, a    *)
(* stack overflow) ends the process: no operation runs after it.           *)
(***************************************************************************)
\* the registry NewPackageRegistry(pkgs...) returns: two empty maps, filled
\* by Add(pkgs...)
NewPackageRegistry(pkgs) ==
    /\ LET R == AddAll([packages |-> EmptyMap, stdlib |-> EmptyMap], pkgs) IN
        /\ packages = R.packages
        /\ stdlib = R.stdlib
    /\ fault = "none"
    /\ op = "NewPackageRegistry"
    /\ arg = pkgs
    /\ query = <<>>
    /\ retRoots = <<>>
    /\ retPkgs = {}
    /\ entered = {}
    /\ err = "nil"
    /\ ranged = <<>>

NoResult ==
    /\ retRoots' = <<>>
    /\ retPkgs' = {}
    /\ entered' = {}
    /\ err' = "nil"
    /\ ranged' = <<>>

Add(pkgs) ==
    /\ fault = "none"
    /\ LET R == AddAll([packages |-> packages, stdlib |-> stdlib], pkgs) IN
        /\ packages' = R.packages
        /\ stdlib' = R.stdlib
    /\ op' = "Add"
    /\ arg' = pkgs
    /\ query' = <<>>
    /\ NoResult
    /\ UNCHANGED fault

Update(pkg) ==
    /\ fault = "none"
    /\ fault' = UpdateFault(packages, pkg)
    /\ packages' = IF UpdateFault(packages, pkg) = "none"
                   THEN UpdatePackages(packages, pkg)
                   ELSE packages
    /\ op' = "Update"
    /\ arg' = <<pkg>>
    /\ query' = <<>>
    /\ NoResult
    /\ UNCHANGED stdlib

ResolvePaths(root, excluded) ==
    /\ fault = "none"
    /\ packages' = ResolvePathsAll(packages, root, excluded)
    /\ op' = "ResolvePaths"
    /\ arg' = <<>>
    /\ query' = <<>>
    /\ NoResult
    /\ UNCHANGED <<stdlib, fault>>

ResolveImports ==
    /\ fault = "none"
    /\ \E out \in ResolveImportsOutcomes(packages, stdlib) :
        /\ packages' = out.packages
        /\ err' = out.err
        /\ ranged' = out.ranged
    /\ op' = "ResolveImports"
    /\ arg' = <<>>
    /\ query' = <<>>
    /\ retRoots' = <<>>
    /\ retPkgs' = {}
    /\ entered' = {}
    /\ UNCHANGED <<stdlib, fault>>

Return(out) ==
    /\ fault' = out.fault
    /\ entered' = out.entered
    /\ retRoots' = out.roots
    /\ retPkgs' = out.pkgs
    /\ err' = "nil"
    /\ ranged' = <<>>

Query(queries) ==
    /\ fault = "none"
    /\ \E out \in QueryOutcomes(packages, queries) : Return(out)
    /\ op' = "Query"
    /\ arg' = <<>>
    /\ query' = queries
    /\ UNCHANGED <<packages, stdlib>>

Match(labels) ==
    /\ fault = "none"
    /\ \E out \in MatchOutcomes(packages, labels) : Return(out)
    /\ op' = "Match"
    /\ arg' = <<>>
    /\ query' = labels
    /\ UNCHANGED <<packages, stdlib>>

(***************************************************************************)
(* Inputs.                                                                 *)
(***************************************************************************)
\* every map with at most n entries from the keys to the values
MapsUpTo(keys, values, n) ==
    UNION {{{<<k, f[k]>> : k \in d} : f \in [d -> values]} :
           d \in {x \in SUBSET keys : Cardinality(x) <= n}}

\* every sequence over S of length at most n
SeqsUpTo(S, n) == UNION {[1..k -> S] : k \in 0..n}

\* logical paths nodes are registered under
PkgPaths == {"@a", "fmt"}

\* import paths: one that a registered node can supply, one that none does
ImportPaths == {"fmt", "os"}

\* raw import identifiers: unresolved, a build label, a stdlib-prefixed id
RawIds == {"", "//x:lib", stdlibPrefix \o "fmt"}

\* nodes as the producer hands them over, identified by a build label: the
\* application package "@a", which may carry external-test files, and "fmt",
\* registered as a standard-library node or as an ordinary one
Nodes ==
    {FlatPackage("//x:lib", "@a", <<"a.go">>, imps, FALSE, <<>>, FALSE) :
        imps \in MapsUpTo(ImportPaths, RawIds, MaxImports)}
    \cup
    {FlatPackage("//x:lib", "@a", <<"a.go">>, imps, FALSE, <<"a_test.go">>, FALSE) :
        imps \in {{}, {<<"fmt", "">>}}}
    \cup
    {FlatPackage("//x:lib", "fmt", <<"a.go">>, imps, TRUE, <<>>, FALSE) :
        imps \in MapsUpTo({"os"}, RawIds, MaxImports)}
    \cup
    {FlatPackage("//x:lib", "fmt", <<"a.go">>, {}, FALSE, <<>>, FALSE)}

\* the filesystem root of the path resolver
PathRoot == "/ws/"

(***************************************************************************)
(* Spec: building the registry (Add, Update, ResolvePaths,                 *)
(* ResolveImports).                                                        *)
(***************************************************************************)
Init == \E pkgs \in SeqsUpTo(Nodes, MaxPkgs) : NewPackageRegistry(pkgs)

Next ==
    \/ \E n \in Nodes : Add(<<n>>)
    \/ \E n \in Nodes : Update(n)
    \/ ResolvePaths("", {"a.go"})
    \/ ResolveImports

Spec == Init /\ [][Next]_vars

(***************************************************************************)
(* SpecFiles: merging file lists (Add and Update of one logical path, with *)
(* every file list up to MaxFiles, beside a second path).                  *)
(***************************************************************************)
FileNames == {"a.go", "b.go", "c.go"}

FileNodes ==
    {FlatPackage("//x:lib", "@a", files, {}, FALSE, <<>>, FALSE) :
        files \in SeqsUpTo(FileNames, MaxFiles)}
    \cup
    {FlatPackage("//x:lib", "fmt", <<"a.go">>, {<<"os", "">>}, TRUE, <<>>, FALSE)}

\* resolvers: one that leaves paths alone, one that makes them absolute
PathRoots == {"", PathRoot}

\* build configurations: every file applies, "b.go" does not (under either
\* form of its path), or no file does
FileExcluded ==
    {{}, {"b.go", PathRoot \o "b.go"},
     FileNames \cup {PathRoot \o f : f \in FileNames}}

InitFiles == \E pkgs \in SeqsUpTo(FileNodes, MaxPkgs) : NewPackageRegistry(pkgs)

NextFiles ==
    \/ \E n \in FileNodes : Add(<<n>>)
    \/ \E n \in FileNodes : Update(n)
    \/ \E r \in PathRoots, x \in FileExcluded : ResolvePaths(r, x)

SpecFiles == InitFiles /\ [][NextFiles]_vars

(***************************************************************************)
(* SpecQuery: Query and Match over import graphs built by Add and Update:  *)
(* a package, its external-test companion, and two stdlib packages.  walk, *)
(* Query and Match read no file list; ResolvePaths here drops the test     *)
(* file of the companion, so queries also run over filtered registries.    *)
(***************************************************************************)
GraphNodes ==
    {FlatPackage("//x:lib", "@a", <<"a.go">>, imps, FALSE, <<>>, FALSE) :
        imps \in {{}, {<<"fmt", "fmt">>}, {<<"@a", "@a">>}}}
    \cup
    {FlatPackage("//x:lib", "@a_xtest", <<"a_test.go">>, {<<"@a", "@a">>},
                 FALSE, <<>>, FALSE)}
    \cup
    {FlatPackage("//x:lib", "fmt", <<"a.go">>, imps, TRUE, <<>>, FALSE) :
        imps \in {{<<"@a", "@a">>}, {<<"os", "">>}}}
    \cup
    {FlatPackage("//x:lib", "os", <<"a.go">>, {}, TRUE, <<>>, FALSE)}

\* roots handed to Query: registered paths, and a build label no key equals
QueryRoots == {"@a", "fmt", "//x:lib"}

\* labels handed to Match: with and without the leading "@", and the
\* reserved stdlib label
Labels == {"a", "@a", RulesGoStdlibLabel}

\* nodes handed to Update: those of GraphNodes that import something
MergeNodes == {n \in GraphNodes : n.Imports # {}}

InitQuery == \E pkgs \in SeqsUpTo(GraphNodes, MaxPkgs) : NewPackageRegistry(pkgs)

NextQuery ==
    \/ \E n \in GraphNodes : Add(<<n>>)
    \/ \E n \in MergeNodes : Update(n)
    \/ ResolvePaths("", {"a_test.go"})
    \/ \E q \in SeqsUpTo(QueryRoots, MaxRoots) : Query(q)
    \/ \E l \in SeqsUpTo(Labels, MaxRoots) : Match(l)

SpecQuery == InitQuery /\ [][NextQuery]_vars

(***************************************************************************)
(* SpecResolve: ResolveImports over registries whose nodes can fail their  *)
(* import-resolution step, carry external-test files to split off, and     *)
(* leave edges unresolved: a package, a node registered under the key its  *)
(* test node takes, and two stdlib packages of which one imports the other. *)
(***************************************************************************)
ResolveNodes ==
    {FlatPackage("//x:lib", "@a", <<"a.go">>, {<<"fmt", "">>}, FALSE, xt, br) :
        xt \in {<<>>, <<"a_test.go">>}, br \in BOOLEAN}
    \cup
    {FlatPackage("//x:lib", "@a_xtest", <<"a_test.go">>, {}, FALSE, <<>>, br) :
        br \in BOOLEAN}
    \cup
    {FlatPackage("//x:lib", "fmt", <<"a.go">>, {}, TRUE, <<>>, br) :
        br \in BOOLEAN}
    \cup
    {FlatPackage("//x:lib", "fmt", <<"a.go">>, {}, FALSE, <<>>, FALSE)}
    \cup
    {FlatPackage("//x:lib", "os", <<"a.go">>, {<<"fmt", "">>}, TRUE, <<>>, br) :
        br \in BOOLEAN}

\* the nodes handed to Update, which stores them without Add's rewrite and
\* without indexing them: the stdlib packages
ResolveMergeNodes == {n \in ResolveNodes : n.Standard /\ ~n.Broken}

InitResolve ==
    \E pkgs \in SeqsUpTo(ResolveNodes, MaxPkgs) : NewPackageRegistry(pkgs)

NextResolve ==
    \/ \E n \in ResolveNodes : Add(<<n>>)
    \/ \E n \in ResolveMergeNodes : Update(n)
    \/ ResolvePaths("", {"a_test.go"})
    \/ ResolveImports

SpecResolve == InitResolve /\ [][NextResolve]_vars

(***************************************************************************)
(* SpecReAdd: Add of fresh nodes, and Add of a node record the registry    *)
(* holds already: the caller hands over the record an earlier Add has      *)
(* rewritten in place, and ResolvePaths may have resolved since.           *)
(***************************************************************************)
NextReAdd ==
    \/ \E n \in Nodes : Add(<<n>>)
    \/ \E e \in packages : Add(<<e[2]>>)
    \/ ResolvePaths(PathRoot, {})

SpecReAdd == Init /\ [][NextReAdd]_vars

(***************************************************************************)
(* Notions the properties are stated with.                                 *)
(***************************************************************************)
\* b is an order-preserving subsequence of a
IsSubseq(b, a) ==
    \E f \in [1..Len(b) -> 1..Len(a)] :
        /\ \A i, j \in 1..Len(b) : i < j => f[i] < f[j]
        /\ \A i \in 1..Len(b) : a[f[i]] = b[i]

IDs(P) == {e[2].ID : e \in P}

\* the registry keys reachable from the keys S along import edges
RECURSIVE Closure(_, _)
Closure(P, S) ==
    LET next == S \cup {t \in Keys(P) :
                          \E k \in S : \E i \in Get(P, k).Imports : i[2] = t}
    IN  IF next = S THEN S ELSE Closure(P, next)

Reach(P, roots) == Closure(P, roots \cap Keys(P))

Range(seq) == {seq[i] : i \in DOMAIN seq}

\* the multiplicity of x in a tally
Count(tally, x) == IF x \in Keys(tally) THEN Get(tally, x) ELSE 0

IsKey(r) == r \in Keys(packages)

(***************************************************************************)
(* Properties of the registry (Spec).                                      *)
(***************************************************************************)
\* C1: in every reachable registry state every stored node has ID equal to
\* its PkgPath, whatever identity the caller supplied.
C1_IdentityIsLogicalPath ==
    \A e \in packages : e[2].ID = e[2].PkgPath

\* C7: every key of the stdlib index is the logical path of a node that is
\* stored in the registry now and is flagged standard-library.
C7_StdlibIndexOnlyStandard ==
    \A s \in stdlib :
        \E e \in packages :
            e[1] = s[1] /\ e[2].PkgPath = s[1] /\ e[2].Standard

\* C8 as stated: after a successful ResolveImports on a registry whose nodes
\* all went through Add's rewrite, every import edge target is the identity
\* of a node in the registry or the empty marker.
C8_EveryTargetKnownOrEmpty ==
    (/\ op = "ResolveImports"
     /\ err = "nil"
     /\ \A e \in packages : e[2].ID = e[2].PkgPath)
    => \A e \in packages : \A i \in e[2].Imports :
            i[2] = "" \/ i[2] \in IDs(packages)

\* C8 as amended: after ResolveImports every import edge target is the
\* identity of a node in the registry, or the empty marker, or the target
\* the edge already had before ResolveImports ran: ResolveImports itself
\* only fills in identities of registered nodes.
C8_ResolveAddsNoDanglingEdge ==
    [][op' = "ResolveImports" =>
        \A e \in packages' : \A i \in e[2].Imports :
            \/ i[2] = ""
            \/ i[2] \in IDs(packages')
            \/ \E o \in packages : i \in o[2].Imports]_vars

\* an edge of a node that never went through Add's rewrite has been filled
\* in from the stdlib index
C8_Witness ==
    /\ op = "ResolveImports"
    /\ err = "nil"
    /\ \E e \in packages :
        /\ e[2].ID = "//x:lib"
        /\ <<"fmt", "fmt">> \in e[2].Imports

(***************************************************************************)
(* Properties of the file-list merge (SpecFiles).                          *)
(***************************************************************************)
\* C2: Update of a path that has a node: if the existing file list is an
\* order-preserving subsequence of the incoming one the stored list becomes
\* the incoming list, otherwise it is unchanged; Update completes normally.
C2_UpdateMergeRule ==
    [][(op' = "Update" /\ arg'[1].PkgPath \in Keys(packages)) =>
        LET path     == arg'[1].PkgPath
            existing == Get(packages, path).GoFiles
            incoming == arg'[1].GoFiles
        IN  /\ fault' = "none"
            /\ Get(packages', path).GoFiles =
                 IF IsSubseq(existing, incoming) THEN incoming ELSE existing
    ]_vars

\* C3: an Update never makes a stored file list shorter, and the list a node
\* held before the Update is an order-preserving subsequence of the list it
\* holds after it (so, the relation being transitive, is every earlier list).
C3_UpdateNeverShrinks ==
    [][op' = "Update" =>
        \A e \in packages :
            /\ e[1] \in Keys(packages')
            /\ Len(Get(packages', e[1]).GoFiles) >= Len(e[2].GoFiles)
            /\ IsSubseq(e[2].GoFiles, Get(packages', e[1]).GoFiles)
    ]_vars

\* an Update with a smaller list, and one with a list of the same length
\* that is no superset, have left the stored list in place
C3_Witness ==
    /\ op = "Update"
    /\ fault = "none"
    /\ arg[1].PkgPath = "@a"
    /\ arg[1].GoFiles \in {<<"a.go">>, <<"b.go", "a.go">>}
    /\ IsKey("@a")
    /\ Get(packages, "@a").GoFiles = <<"a.go", "b.go">>

(***************************************************************************)
(* Properties of walk, Query and Match (SpecQuery).                        *)
(***************************************************************************)
\* C4: a walk from one root terminates, cycles, self-imports and unresolved
\* edges included, and enters each node reachable from the root exactly once.
C4_WalkEntersEachOnce ==
    (op = "Query" /\ Len(query) = 1) =>
        /\ fault = "none"
        /\ \A k \in Reach(packages, {query[1]}) : Count(entered, k) = 1

\* C5: Query returns the supplied roots verbatim, and as reachable nodes
\* exactly the registry nodes in the transitive closure of the import edges
\* from the roots present in the registry, each node once (a set that does
\* not depend on the order of the roots).
C5_QueryReturnsClosure ==
    op = "Query" =>
        /\ fault = "none"
        /\ retRoots = query
        /\ retPkgs = {<<k, 1>> : k \in Reach(packages, Range(query))}

\* the orders in which the last Query or Match can have walked its roots
RootOrders ==
    IF op = "Query" THEN {query} ELSE Orders(MatchRoots(packages, query))

\* C6: walk on a root absent from the registry leaves the visited set as it
\* was and raises nothing; a Query or Match with such roots ends as the walk
\* of its other roots alone ends, and returns what that walk reaches.
C6_AbsentRootSkipped ==
    /\ \A r \in (QueryRoots \cup {""}) \ Keys(packages) :
         \A st \in {WalkStart,
                    [acc |-> {<<"fmt", "fmt">>}, trace |-> <<"fmt">>,
                     fault |-> "none"]} :
            walk(packages, st, r, 1) = {st}
    /\ op \in {"Query", "Match"} =>
         \E o \in RootOrders :
            \E s \in walkRoots(packages, {WalkStart}, SelectSeq(o, IsKey)) :
                /\ s.fault = fault
                /\ Tally(s.trace) = entered
                /\ fault = "none" => retPkgs = Collect(s.acc)

\* a Query whose first root is absent has returned the nodes of its second
C6_Witness ==
    /\ op = "Query"
    /\ fault = "none"
    /\ Len(query) = 2
    /\ ~IsKey(query[1])
    /\ IsKey(query[2])
    /\ retPkgs # {}

\* C9: Match of the reserved stdlib label returns as roots exactly the
\* identities of all nodes flagged standard-library, and every one of those
\* nodes is in the returned reachable set.
C9_MatchStdlibLabel ==
    (op = "Match" /\ query = <<RulesGoStdlibLabel>>) =>
        /\ fault = "none"
        /\ retRoots = {<<e[2].ID, 1>> : e \in {x \in packages : x[2].Standard}}
        /\ \A e \in packages : e[2].Standard => <<e[1], 1>> \in retPkgs

\* C10: Match of one label L that is not the stdlib label returns L
\* (normalized) as a root, and L_xtest as a root exactly when the registry
\* holds that key; the reachable set is both nodes and all they import,
\* transitively.
C10_MatchLabelAndXTest ==
    (op = "Match" /\ Len(query) = 1
        /\ NormalizeLabel(query[1]) # RulesGoStdlibLabel) =>
        LET l == NormalizeLabel(query[1])
            roots == {l} \cup {x \in {l \o XTestSuffix} : IsKey(x)}
        IN  /\ fault = "none"
            /\ retRoots = {<<r, 1>> : r \in roots}
            /\ retPkgs = {<<k, 1>> : k \in Reach(packages, roots)}

\* the labels with "@" prepended to every one that lacks it
Anchored(labels) ==
    [i \in DOMAIN labels |->
        IF Len(labels[i]) > 0 /\ SubSeq(labels[i], 1, 1) = "@"
        THEN labels[i] ELSE "@" \o labels[i]]

\* C11: Match of labels without the leading "@" returns the roots and the
\* reachable set that Match of the same labels with "@" prepended returns;
\* no root is returned twice, whatever the labels repeat, and so none is
\* walked twice by the loop, which appends a root and walks it in the same
\* iteration; every returned root that is a registry key has been entered.
C11_MatchNormalizesAndDedups ==
    op = "Match" =>
        /\ \A o \in MatchOutcomes(packages, Anchored(query)) :
                o.roots = retRoots /\ o.pkgs = retPkgs /\ o.fault = fault
        /\ fault = "none" =>
              /\ \A r \in retRoots : r[2] = 1
              /\ \A r \in Keys(retRoots) \cap Keys(packages) :
                    Count(entered, r) >= 1

\* C12: Add of a node whose logical path already has a node creates no
\* node: no key is gained or lost, the registry holds one node under that
\* path and as many nodes of that path as before; the node is the one just
\* added (its files, flag, test files and import paths, under the path as
\* identity), and if it is standard-library the stdlib index maps the path
\* to it.
C12_AddLastWriteWins ==
    [][(op' = "Add" /\ arg'[1].PkgPath \in Keys(packages)) =>
        LET n    == arg'[1]
            path == n.PkgPath
        IN  /\ Keys(packages') = Keys(packages)
            /\ Cardinality(packages') = Cardinality(Keys(packages'))
            /\ Cardinality({e \in packages' : e[1] = path}) = 1
            /\ Cardinality({e \in packages' : e[2].PkgPath = path}) =
                 Cardinality({e \in packages : e[2].PkgPath = path})
            /\ LET stored == Get(packages', path) IN
                /\ stored.ID = path
                /\ stored.GoFiles = n.GoFiles
                /\ stored.Standard = n.Standard
                /\ stored.XTestFiles = n.XTestFiles
                /\ Keys(stored.Imports) = Keys(n.Imports)
            /\ n.Standard => <<path, path>> \in stdlib'
    ]_vars

\* an ordinary node has replaced the standard-library node of "fmt", whose
\* index entry shows that it was there
C12_Witness ==
    /\ op = "Add"
    /\ arg[1].PkgPath = "fmt"
    /\ ~arg[1].Standard
    /\ <<"fmt", "fmt">> \in stdlib
    /\ ~Get(packages, "fmt").Standard

\* C13: isSuperset(a, b) returns true exactly when b is an order-preserving
\* subsequence of a and false otherwise, never failing: in particular true
\* for an empty b, whatever a is.  Checked on every pair Update hands to it
\* (a the incoming file list, b the stored one).
C13_IsSupersetIffSubsequence ==
    [][(op' = "Update" /\ arg'[1].PkgPath \in Keys(packages)) =>
        LET a == arg'[1].GoFiles
            b == Get(packages, arg'[1].PkgPath).GoFiles
        IN  isSuperset(a, b) = IF IsSubseq(b, a) THEN "true" ELSE "false"
    ]_vars

\* r is the canonical target of an edge with raw identifier id under the
\* path key path, in an importer whose standard-library flag is standard
IsCanonical(r, path, id, standard) ==
    IF HasPrefix(id, stdlibPrefix) THEN stdlibPrefix \o r = id
    ELSE IF standard THEN r = id
    ELSE r = path

\* C14: the node Add has registered carries, for every import edge of the
\* node handed in and for no other, the canonical target: the identifier
\* without the stdlib prefix when it has it, whatever the importer; else the
\* identifier unchanged when the importer is standard-library; else the
\* import path.
C14_AddCanonicalizesEdges ==
    op = "Add" =>
        LET n      == arg[1]
            stored == Get(packages, n.PkgPath)
        IN  /\ Keys(stored.Imports) = Keys(n.Imports)
            /\ Cardinality(stored.Imports) = Cardinality(n.Imports)
            /\ \A e \in n.Imports :
                  IsCanonical(Get(stored.Imports, e[1]), e[1], e[2], n.Standard)

\* a standard-library importer has had a prefixed identifier stripped, to a
\* target that is neither the identifier nor the import path
C14_Witness ==
    /\ op = "Add"
    /\ arg[1].Standard
    /\ arg[1].Imports = {<<"os", stdlibPrefix \o "fmt">>}
    /\ Get(packages, "fmt").Imports = {<<"os", "fmt">>}

\* C15: Update of a node whose logical path already has a node leaves the
\* stdlib index, the key set and every other node as they were, and leaves
\* the node of that path as it was in every field but its file list: its
\* identity, import edges and standard-library flag are the stored ones,
\* not the incoming ones.
C15_UpdateTouchesFilesOnly ==
    [][(op' = "Update" /\ arg'[1].PkgPath \in Keys(packages)) =>
        LET path == arg'[1].PkgPath
            old  == Get(packages, path)
            new  == Get(packages', path)
        IN  /\ stdlib' = stdlib
            /\ Keys(packages') = Keys(packages)
            /\ Cardinality(packages') = Cardinality(packages)
            /\ \A e \in packages : e[1] # path => e \in packages'
            /\ new = [old EXCEPT !.GoFiles = new.GoFiles]
    ]_vars

\* an Update whose node differs from the stored node of its path in
\* identity, flag and import edges has left all three as stored
C15_Witness ==
    /\ op = "Update"
    /\ fault = "none"
    /\ IsKey(arg[1].PkgPath)
    /\ LET stored == Get(packages, arg[1].PkgPath) IN
        /\ stored.ID # arg[1].ID
        /\ stored.Standard # arg[1].Standard
        /\ Keys(stored.Imports) # Keys(arg[1].Imports)

(***************************************************************************)
(* Properties of ResolveImports (SpecResolve).                             *)
(***************************************************************************)
\* the keys of the nodes whose import-resolution step fails
BrokenKeys(P) == {k \in Keys(P) : PkgResolveFails(Get(P, k))}

\* what the two per-node steps make of the node stored under k
Processed(P, S, k) == MoveTestFiles(PkgResolveImports(Get(P, k), S))

\* the keys under which the nodes of P would store their test nodes
TestKeys(P) == {e[2].ID \o XTestSuffix : e \in P}

\* the keys of a range's productions, in order
RangedKeys(seq) == [i \in DOMAIN seq |-> seq[i][1]]

\* The two per-node steps run on the productions of a range, in order, from
\* the i-th on, up to the first production whose import-resolution step
\* fails: the registry they leave (each node replaced by what is left of
\* it, its test node, if any, stored under the test node's identity), the
\* index of the failing production (0 when none fails), and whether each
\* production was the node stored under its key when its turn came.
RECURSIVE StepsInOrder(_, _, _, _)
StepsInOrder(P, S, seq, i) ==
    IF i > Len(seq) THEN [packages |-> P, failed |-> 0, stored |-> TRUE]
    ELSE LET k   == seq[i][1]
             pkg == seq[i][2]
         IN  IF k \notin Keys(P) \/ pkg # Get(P, k)
             THEN [packages |-> P, failed |-> 0, stored |-> FALSE]
             ELSE IF PkgResolveFails(pkg)
             THEN [packages |-> P, failed |-> i, stored |-> TRUE]
             ELSE LET mv == Processed(P, S, k)
                      P1 == Put(P, k, mv.rest)
                      P2 == IF mv.test = <<>> THEN P1
                            ELSE Put(P1, mv.test[1].ID, mv.test[1])
                  IN  StepsInOrder(P2, S, seq, i + 1)

\* C16: ResolveImports returns an error exactly when the import-resolution
\* step fails for a node its range produces, and none when no stored node
\* fails.  The range produces each key at most once, with the node stored
\* then, and every key of the registry when no error is returned.  When it
\* returns the error, the failing node is the last one produced (no node
\* is processed after it), no test node is split off it (it keeps its test
\* files and the registry gets no key from it), and every other entry is
\* what the steps on the nodes produced before it, in that order, left:
\* their resolved edges and inserted test nodes are kept, and nothing else
\* is touched.  Without error the registry is what the steps on all the
\* nodes produced left.
C16_ResolveAbortsOnFailure ==
    [][op' = "ResolveImports" =>
        LET n    == Len(ranged')
            keys == RangedKeys(ranged')
            run  == StepsInOrder(packages, stdlib, ranged', 1)
        IN  /\ \A i, j \in 1..n : i # j => keys[i] # keys[j]
            /\ run.stored
            /\ err' = "nil" <=> run.failed = 0
            /\ BrokenKeys(packages) = {} => err' = "nil"
            /\ err' = "nil" =>
                /\ Keys(packages) \subseteq Range(keys)
                /\ packages' = run.packages
            /\ err' # "nil" =>
                /\ run.failed = n
                /\ Keys(packages') = Keys(run.packages)
                /\ \A k \in Keys(packages') \ {keys[n]} :
                        Get(packages', k) = Get(run.packages, k)
                /\ Get(packages', keys[n]).XTestFiles
                        = ranged'[n][2].XTestFiles
    ]_vars

\* ResolveImports has failed on "fmt" after its range produced "os" with
\* an unresolved edge and "@a" with a test file: the edge of "os" is
\* resolved, "@a" has no test file left and its test node is in the registry
C16_Witness ==
    /\ op = "ResolveImports"
    /\ err # "nil"
    /\ Len(ranged) = 3
    /\ ranged[3][1] = "fmt"
    /\ \E i \in 1..2 :
        /\ ranged[i][1] = "os"
        /\ ranged[i][2].Imports = {<<"fmt", "">>}
    /\ \E i \in 1..2 :
        /\ ranged[i][1] = "@a"
        /\ ranged[i][2].XTestFiles = <<"a_test.go">>
    /\ "@a_xtest" \notin Range(RangedKeys(ranged))
    /\ Get(packages, "os").Imports = {<<"fmt", "fmt">>}
    /\ Get(packages, "@a").XTestFiles = <<>>
    /\ IsKey("@a_xtest")
    /\ Get(packages, "@a_xtest").GoFiles = <<"a_test.go">>
    /\ Get(packages, "@a_xtest").Imports = Get(packages, "@a").Imports

\* C17: after a ResolveImports that returns no error, every edge that was
\* unresolved (empty target) under the import path p targets the identity
\* of the node registered under p when that node is standard-library, and
\* is still unresolved when no standard-library node is registered under p.
\* (Nodes whose key a test node of this pass can take are left aside.)
C17_ResolvedIffStdlibRegistered ==
    [][(op' = "ResolveImports" /\ err' = "nil") =>
        \A e \in packages : \A i \in e[2].Imports :
            (i[2] = "" /\ e[1] \notin TestKeys(packages)) =>
                LET p     == i[1]
                    after == Get(Get(packages', e[1]).Imports, p)
                IN  IF p \in Keys(packages) /\ Get(packages, p).Standard
                    THEN after = Get(packages, p).ID
                    ELSE after = ""
    ]_vars

\* C18: whatever order ResolveImports visits the nodes in, and whether or
\* not it visits a test node it has inserted, it ends with the same
\* registry and returns the same error: every outcome the iteration orders
\* allow from a state is the one outcome taken.
C18_ResolveImportsDeterministic ==
    [][op' = "ResolveImports" =>
        \A o \in ResolveImportsOutcomes(packages, stdlib) :
            o.packages = packages' /\ o.err = err'
    ]_vars

(***************************************************************************)
(* Properties of Query and Match as a whole (SpecQuery).                   *)
(***************************************************************************)
\* what the call that produced the next state can return when it is made
\* again on that state
Repeated ==
    IF op' = "Query" THEN QueryOutcomes(packages', query')
    ELSE MatchOutcomes(packages', query')

\* C19: a Query or Match leaves the registry (the keys, every node with its
\* identity, files and import edges) and the stdlib index as they were, and
\* the same call made again returns the same roots and the same reachable
\* set.
C19_QueryMatchReadOnly ==
    [][op' \in {"Query", "Match"} =>
        /\ packages' = packages
        /\ stdlib' = stdlib
        /\ fault' = "none" =>
              \A o \in Repeated :
                  o.fault = "none" /\ o.roots = retRoots' /\ o.pkgs = retPkgs'
    ]_vars

(***************************************************************************)
(* Properties of repeated Add (SpecReAdd).                                 *)
(***************************************************************************)
\* C20: Add of a node record that an earlier Add has registered (and so
\* rewritten) leaves the registry, with that node's identity and every one
\* of its import edge targets, and the stdlib index exactly as they were.
C20_AddIdempotent ==
    [][(op' = "Add" /\ <<arg'[1].PkgPath, arg'[1]>> \in packages) =>
        /\ packages' = packages
        /\ stdlib' = stdlib
    ]_vars

====
